---- MODULE Spec2Model ----
(***************************************************************************)
(* A model of the two reasoning engines of the repository:                 *)
(*   - minesweeper.py : Sentence, MinesweeperAI (knowledge-base engine)    *)
(*   - tictactoe.py   : board model and minimax                            *)
(***************************************************************************)
EXTENDS Integers, Sequences, FiniteSets, TLC

VARIABLES
    height, width,      \* MinesweeperAI.height, MinesweeperAI.width
    minefield,          \* Minesweeper.board, as the set of cells holding a mine
    truthful,           \* TRUE: the driver reports Minesweeper.nearby_mines of non-mine cells
    moves_made,         \* MinesweeperAI.moves_made
    mines,              \* MinesweeperAI.mines
    safes,              \* MinesweeperAI.safes
    knowledge,          \* MinesweeperAI.knowledge: a list of sentences [cells, count]
    pc,                 \* "idle": no call in progress; "loop": inside add_knowledge's while loop
    passes,             \* passes of the while loop completed by the current call
    calls,              \* number of add_knowledge calls made
    cur,                \* arguments of the current (or last) add_knowledge call
    prev_call,          \* arguments of the call before it
    snap,               \* mines, safes, len(knowledge) when the current call started
    owed,               \* cells of subset inferences of this call whose count equals their size
    underived,          \* TRUE once a pass left a subset inference out of knowledge
    ret,                \* what the last make_safe_move / make_random_move returned
    heap,               \* tic-tac-toe: the list objects; heap[id] is the contents of list id
    state,              \* the board of the game in progress (the id of a list of three rows)
    input,              \* the board object passed to the last call of result
    input_was,          \* the contents of that board when the call was made
    last_action,        \* the action passed to the last call of result
    raised,             \* the exception the last call of result raised, or "none"
    returned,           \* the board object the last call of result returned, None if it raised
    chosen,             \* what minimax returned, when the last move was its own
    self_play,          \* TRUE while every move of the game was made by minimax
    judged              \* what winner and terminal returned for the board, once called

ms_vars == <<height, width, minefield, truthful, moves_made, mines, safes, knowledge,
             pc, passes, calls, cur, prev_call, snap, owed, underived, ret>>

game_vars == <<heap, state, input, input_was, last_action, raised, returned, chosen,
               self_play, judged>>

(***************************************************************************)
(* Bounds of the model.                                                    *)
(***************************************************************************)
MaxCalls == 3        \* add_knowledge calls per behaviour
MaxPasses == 4       \* passes of the while loop the model follows in one call

\* the grid of a game played with ground-truth counts, and of one fed arbitrary counts
TruthfulGrid == <<2, 3>>
ArbitraryGrid == <<1, 4>>
\* the counts an untruthful driver may report
ReportedCounts == {0, 1, 2, 4, 5}

None == <<"None">>

Cells == {<<i, j>> : i \in 0..(height - 1), j \in 0..(width - 1)}

Range(seq) == {seq[k] : k \in DOMAIN seq}

(***************************************************************************)
(* Minesweeper: the game's ground truth.                                   *)
(***************************************************************************)
\* the in-bounds cells within one row and column of cell, cell excluded
get_neighbors(cell) ==
    {<<i, j>> : i \in (cell[1] - 1)..(cell[1] + 1), j \in (cell[2] - 1)..(cell[2] + 1)}
        \cap (Cells \ {cell})

is_mine(cell) == cell \in minefield

nearby_mines(cell) ==
    Cardinality({c \in {<<i, j>> : i \in (cell[1] - 1)..(cell[1] + 1),
                                   j \in (cell[2] - 1)..(cell[2] + 1)} :
                    /\ c # cell
                    /\ 0 <= c[1] /\ c[1] < height /\ 0 <= c[2] /\ c[2] < width
                    /\ is_mine(c)})

(***************************************************************************)
(* Sentence.                                                               *)
(***************************************************************************)
Sentence(cells, count) == [cells |-> cells, count |-> count]

known_mines(s) == IF Cardinality(s.cells) = s.count THEN s.cells ELSE {}

known_safes(s) == IF s.count = 0 THEN s.cells ELSE {}

\* Sentence.mark_mine without self.count -= 1
Sentence_mark_mine_keeps_count(s, cell) ==
    IF cell \in s.cells
    THEN [cells |-> s.cells \ {cell}, count |-> s.count]
    ELSE s

Sentence_mark_mine(s, cell) ==
    IF cell \in s.cells
    THEN [cells |-> s.cells \ {cell}, count |-> s.count - 1]
    ELSE s

Sentence_mark_safe(s, cell) ==
    IF cell \in s.cells
    THEN [cells |-> s.cells \ {cell}, count |-> s.count]
    ELSE s

(***************************************************************************)
(* MinesweeperAI.  The pure steps work on kb = [mines, safes, knowledge].  *)
(***************************************************************************)
mark_mine(kb, cell) ==
    [mines |-> kb.mines \cup {cell},
     safes |-> kb.safes,
     knowledge |-> [k \in DOMAIN kb.knowledge |-> Sentence_mark_mine(kb.knowledge[k], cell)]]

\* mark_safe without the loop over self.knowledge
mark_safe_set_only(kb, cell) ==
    [mines |-> kb.mines, safes |-> kb.safes \cup {cell}, knowledge |-> kb.knowledge]

\* mark_safe that takes the cell back off the mines
mark_safe_retracting_mine(kb, cell) ==
    [mines |-> kb.mines \ {cell},
     safes |-> kb.safes \cup {cell},
     knowledge |-> [k \in DOMAIN kb.knowledge |-> Sentence_mark_safe(kb.knowledge[k], cell)]]

mark_safe(kb, cell) ==
    [mines |-> kb.mines,
     safes |-> kb.safes \cup {cell},
     knowledge |-> [k \in DOMAIN kb.knowledge |-> Sentence_mark_safe(kb.knowledge[k], cell)]]

\* for cell in sentence.cells.copy(): self.mark_safe(cell)
RECURSIVE mark_safe_each(_, _)
mark_safe_each(kb, cells) ==
    IF cells = {} THEN kb
    ELSE LET cell == CHOOSE c \in cells : TRUE
         IN mark_safe_each(mark_safe(kb, cell), cells \ {cell})

\* for cell in sentence.cells.copy(): self.mark_mine(cell)
RECURSIVE mark_mine_each(_, _)
mark_mine_each(kb, cells) ==
    IF cells = {} THEN kb
    ELSE LET cell == CHOOSE c \in cells : TRUE
         IN mark_mine_each(mark_mine(kb, cell), cells \ {cell})

\* make_conclusion on the i-th sentence of the list
make_conclusion(kb, i) ==
    LET sentence == kb.knowledge[i]
    IN IF sentence.count = 0 THEN mark_safe_each(kb, sentence.cells)
       ELSE IF Cardinality(sentence.cells) = sentence.count
            THEN mark_mine_each(kb, sentence.cells)
            ELSE kb

\* make_conclusion(sentence) marks at least one cell
concludes(sentence) ==
    /\ sentence.cells # {}
    /\ (sentence.count = 0 \/ Cardinality(sentence.cells) = sentence.count)

\* Step 1: for sentence in self.knowledge: make_conclusion(sentence), from the sentence at
\* index first on, in list order; the sentences on which make_conclusion marks nothing
\* (no cells, or neither condition) are stepped over
RECURSIVE conclude_from(_, _)
conclude_from(kb, first) ==
    LET todo == {i \in first..Len(kb.knowledge) : concludes(kb.knowledge[i])}
    IN IF todo = {} THEN kb
       ELSE LET i == CHOOSE x \in todo : \A y \in todo : x <= y
            IN conclude_from(make_conclusion(kb, i), i + 1)

conclude_all(kb) == conclude_from(kb, 1)

\* Step 2: self.knowledge = [s for s in self.knowledge if len(s.cells)]
remove_empty(kn) == SelectSeq(kn, LAMBDA s : s.cells # {})

\* new_sentence not in self.knowledge, by Sentence.__eq__; known = the sentences of the list
is_known(known, new_sentence) == new_sentence \in known

\* make_inference with the subset test the wrong way round
make_inference_reversed(kn, known, i, j) ==
    IF i = j THEN <<>>
    ELSE LET swap == Cardinality(kn[i].cells) > Cardinality(kn[j].cells)
             set1 == IF swap THEN kn[j] ELSE kn[i]
             set2 == IF swap THEN kn[i] ELSE kn[j]
         IN IF set2.cells \subseteq set1.cells
            THEN LET new_sentence == Sentence(set2.cells \ set1.cells,
                                              set2.count - set1.count)
                 IN IF ~is_known(known, new_sentence) THEN <<new_sentence>> ELSE <<>>
            ELSE <<>>

\* make_inference(set1, set2) on the i-th and j-th sentence; known = the sentences of
\* self.knowledge; <<>> stands for None
make_inference(kn, known, i, j) ==
    IF i = j THEN <<>>
    ELSE LET swap == Cardinality(kn[i].cells) > Cardinality(kn[j].cells)
             set1 == IF swap THEN kn[j] ELSE kn[i]
             set2 == IF swap THEN kn[i] ELSE kn[j]
         IN IF set1.cells \subseteq set2.cells
            THEN LET new_sentence == Sentence(set2.cells \ set1.cells,
                                              set2.count - set1.count)
                 IN IF ~is_known(known, new_sentence) THEN <<new_sentence>> ELSE <<>>
            ELSE <<>>

\* Step 3: new_sentences, in the order of the two nested loops over self.knowledge
new_sentences(kn) ==
    LET n == Len(kn)
        known == Range(kn)
        tried == [k \in 1..(n * n) |->
                     make_inference(kn, known, ((k - 1) \div n) + 1, ((k - 1) % n) + 1)]
        found == SelectSeq(tried, LAMBDA r : r # <<>>)
    IN [k \in 1..Len(found) |-> found[k][1]]

\* one pass of the while loop: Steps 1 to 3 and self.knowledge.extend(new_sentences)
loop_pass(kb) ==
    LET concluded == conclude_all(kb)
        live == remove_empty(concluded.knowledge)
    IN [mines |-> concluded.mines,
        safes |-> concluded.safes,
        knowledge |-> live \o new_sentences(live)]

\* Step 4: nothing changed in this pass
unchanged_pass(before, after) ==
    /\ Cardinality(after.mines) = Cardinality(before.mines)
    /\ Cardinality(after.safes) = Cardinality(before.safes)
    /\ Len(after.knowledge) = Len(before.knowledge)

(***************************************************************************)
(* MinesweeperAI: the operations.                                          *)
(***************************************************************************)
KB == [mines |-> mines, safes |-> safes, knowledge |-> knowledge]

NoCall == [op |-> "none", value |-> None]

\* the count as it was reported, the mines already known among the neighbours not taken off
neighbors_mines_count_reported(count, neighbors_known_to_be_mines) == count

\* count - len(neighbors_known_to_be_mines)
neighbors_mines_count(count, neighbors_known_to_be_mines) ==
    count - Cardinality(neighbors_known_to_be_mines)

\* no look for the new sentence in the list
in_knowledge_never(kn, new_sentence) == FALSE

\* if new_sentence in self.knowledge: return
in_knowledge(kn, new_sentence) == \E k \in DOMAIN kn : kn[k] = new_sentence

\* the cells a pass owes to mines: for live sentences A, B with A.cells a proper subset of
\* B.cells, the cells of B - A when B.count - A.count equals their number
owed_by(live) ==
    UNION {B.cells \ A.cells : <<A, B>> \in
              {p \in Range(live) \X Range(live) :
                  /\ p[1].cells \subseteq p[2].cells /\ p[1].cells # p[2].cells
                  /\ p[2].count - p[1].count = Cardinality(p[2].cells \ p[1].cells)}}

\* some subset inference of the live sentences is not in the list after the pass
not_derived(live, after) ==
    \E A \in Range(live), B \in Range(live) :
        /\ A.cells \subseteq B.cells /\ A.cells # B.cells
        /\ Sentence(B.cells \ A.cells, B.count - A.count) \notin Range(after)

\* add_knowledge(cell, count) up to the while loop
AddKnowledge(cell, count) ==
    /\ pc = "idle"
    /\ calls < MaxCalls
    /\ LET kb == mark_safe(KB, cell)
           neighbors == get_neighbors(cell)
           neighbors_known_to_be_mines == neighbors \cap kb.mines
           neighbors_known_to_be_safes == neighbors \cap kb.safes
           neighbors_known == neighbors_known_to_be_mines \cup neighbors_known_to_be_safes
           neighbors_not_known == neighbors \ neighbors_known
           new_sentence == Sentence(neighbors_not_known,
                                    neighbors_mines_count(count, neighbors_known_to_be_mines))
           returns == \/ neighbors_not_known = {}
                      \/ in_knowledge(kb.knowledge, new_sentence)
       IN /\ moves_made' = moves_made \cup {cell}
          /\ mines' = kb.mines
          /\ safes' = kb.safes
          /\ knowledge' = IF returns THEN kb.knowledge
                          ELSE Append(kb.knowledge, new_sentence)
          /\ pc' = IF returns THEN "idle" ELSE "loop"
    /\ passes' = 0
    /\ calls' = calls + 1
    /\ prev_call' = cur
    /\ cur' = <<cell, count>>
    /\ snap' = [mines |-> mines, safes |-> safes, size |-> Len(knowledge)]
    /\ owed' = {}
    /\ underived' = FALSE
    /\ ret' = NoCall
    /\ UNCHANGED <<height, width, minefield, truthful>>
    /\ UNCHANGED game_vars

\* the driver: a revealed safe cell and its count of neighbouring mines, or anything
Reveal ==
    \E cell \in Cells :
        \/ /\ truthful
           /\ ~is_mine(cell)
           /\ AddKnowledge(cell, nearby_mines(cell))
        \/ /\ ~truthful
           /\ \E count \in ReportedCounts : AddKnowledge(cell, count)

\* one pass of add_knowledge's while loop, and the break
Pass ==
    /\ pc = "loop"
    /\ passes < MaxPasses
    /\ LET after == loop_pass(KB)
           live == remove_empty(conclude_all(KB).knowledge)
       IN /\ mines' = after.mines
          /\ safes' = after.safes
          /\ knowledge' = after.knowledge
          /\ pc' = IF unchanged_pass(KB, after) THEN "idle" ELSE "loop"
          /\ owed' = owed \cup owed_by(live)
          /\ underived' = (underived \/ not_derived(live, after.knowledge))
    /\ passes' = passes + 1
    /\ ret' = NoCall
    /\ UNCHANGED <<height, width, minefield, truthful, moves_made, calls, cur, prev_call, snap>>
    /\ UNCHANGED game_vars

\* make_safe_move without the moves already made taken off
make_safe_move_any == IF safes # {} THEN safes ELSE {None}

\* the values make_safe_move may return
make_safe_move ==
    LET safe_moves == safes \ moves_made
    IN IF safe_moves # {} THEN safe_moves ELSE {None}

\* make_random_move without the known mines taken off
make_random_move_among_unplayed ==
    LET choices == {<<i, j>> : i \in 0..(height - 1), j \in 0..(width - 1)} \ moves_made
    IN IF choices # {} THEN choices ELSE {None}

\* the values make_random_move may return
make_random_move ==
    LET choices == ({<<i, j>> : i \in 0..(height - 1), j \in 0..(width - 1)} \ moves_made) \ mines
    IN IF choices # {} THEN choices ELSE {None}

MakeSafeMove ==
    /\ pc = "idle"
    /\ \E move \in make_safe_move : ret' = [op |-> "make_safe_move", value |-> move]
    /\ UNCHANGED <<height, width, minefield, truthful, moves_made, mines, safes, knowledge,
                   pc, passes, calls, cur, prev_call, snap, owed, underived>>
    /\ UNCHANGED game_vars

MakeRandomMove ==
    /\ pc = "idle"
    /\ \E move \in make_random_move : ret' = [op |-> "make_random_move", value |-> move]
    /\ UNCHANGED <<height, width, minefield, truthful, moves_made, mines, safes, knowledge,
                   pc, passes, calls, cur, prev_call, snap, owed, underived>>
    /\ UNCHANGED game_vars

(***************************************************************************)
(* Tic-tac-toe: the board functions.  A board value is a tuple of three    *)
(* rows of three marks; an action (i, j) is the pair <<i, j>>, from 0.     *)
(***************************************************************************)
X == <<"X">>
O == <<"O">>
EMPTY == None

initial_state == <<<<EMPTY, EMPTY, EMPTY>>, <<EMPTY, EMPTY, EMPTY>>, <<EMPTY, EMPTY, EMPTY>>>>

\* row.count(mark)
row_count(row, mark) == Cardinality({j \in 1..3 : row[j] = mark})

\* player with the comparison count_X >= count_O
player_from_equal(board) ==
    LET count_X == row_count(board[1], X) + row_count(board[2], X) + row_count(board[3], X)
        count_O == row_count(board[1], O) + row_count(board[2], O) + row_count(board[3], O)
    IN IF count_X >= count_O THEN O ELSE X

player(board) ==
    LET count_X == row_count(board[1], X) + row_count(board[2], X) + row_count(board[3], X)
        count_O == row_count(board[1], O) + row_count(board[2], O) + row_count(board[3], O)
    IN IF count_X > count_O THEN O ELSE X

actions(board) == {<<i, j>> \in (0..2) \X (0..2) : board[i + 1][j + 1] = EMPTY}

\* the list objects a board is made of: heap[id] is the contents of list id, or Free; a
\* board object holds the ids of its three rows, a row object holds three marks
Free == <<>>

\* the board value held by board object b
contents(h, b) == <<h[h[b][1]], h[h[b][2]], h[h[b][3]]>>

\* the objects of board b
objects(h, b) == {b, h[b][1], h[b][2], h[b][3]}

\* the k-th lowest id no object of board b has: where the k-th new list is allocated
fresh(h, b, k) ==
    LET free == DOMAIN h \ objects(h, b)
    IN CHOOSE x \in free : Cardinality({y \in free : y < x}) = k - 1

\* the heap once the lists no board of live refers to are collected
collect(h, live) ==
    LET used == UNION {objects(h, b) : b \in live}
        kept(id) == IF id \in used THEN h[id] ELSE Free
    IN <<kept(1), kept(2), kept(3), kept(4), kept(5), kept(6), kept(7), kept(8)>>

\* board.copy(): a new board object holding the same row objects
copy_rows_shallow(h, b) ==
    LET new_board == fresh(h, b, 4)
    IN [heap |-> [collect(h, {b}) EXCEPT ![new_board] = h[b]],
        board |-> new_board]

\* new_board = [row.copy() for row in board]: three new row objects in a new board object
copy_rows(h, b) ==
    LET rows == <<fresh(h, b, 1), fresh(h, b, 2), fresh(h, b, 3)>>
        new_board == fresh(h, b, 4)
    IN [heap |-> [collect(h, {b}) EXCEPT ![rows[1]] = h[h[b][1]],
                                         ![rows[2]] = h[h[b][2]],
                                         ![rows[3]] = h[h[b][3]],
                                         ![new_board] = rows],
        board |-> new_board]

\* new_board[i][j] = move, on the board object copied.board of the heap copied.heap
write(copied, i, j, move) ==
    [raised |-> "none",
     heap |-> [copied.heap EXCEPT ![copied.heap[copied.board][i + 1]][j + 1] = move],
     board |-> copied.board]

\* result without the test of line 53: a negative index counts from the end of the list
result_on_unchecked(h, b, action) ==
    LET i == IF action[1] < 0 THEN action[1] + 3 ELSE action[1]
        j == IF action[2] < 0 THEN action[2] + 3 ELSE action[2]
    IN IF i > 2 \/ j > 2
       THEN [raised |-> "IndexError", heap |-> h, board |-> None]
       ELSE IF h[h[b][i + 1]][j + 1] # EMPTY
            THEN [raised |-> "ValueError", heap |-> h, board |-> None]
            ELSE write(copy_rows(h, b), i, j, player(contents(h, b)))

\* result(board, action) on the board object b of heap h: the exception raised or "none",
\* the heap after the call and the board object returned
result_on(h, b, action) ==
    LET i == action[1]
        j == action[2]
    IN IF i < 0 \/ j < 0
       THEN [raised |-> "IndexError", heap |-> h, board |-> None]
       ELSE IF i > 2 \/ j > 2        \* board[i][j] on lists of three
            THEN [raised |-> "IndexError", heap |-> h, board |-> None]
            ELSE IF h[h[b][i + 1]][j + 1] # EMPTY
                 THEN [raised |-> "ValueError", heap |-> h, board |-> None]
                 ELSE write(copy_rows(h, b), i, j, player(contents(h, b)))

\* the board value result(board, action) returns for an action of actions(board)
result(board, action) ==
    [board EXCEPT ![action[1] + 1][action[2] + 1] = player(board)]

\* the sets winner would check if both diagonals were filled from row[i]
lines_one_diagonal(board) ==
    << {board[1][1], board[1][2], board[1][3]},
       {board[2][1], board[2][2], board[2][3]},
       {board[3][1], board[3][2], board[3][3]},
       {board[1][1], board[2][1], board[3][1]},
       {board[1][2], board[2][2], board[3][2]},
       {board[1][3], board[2][3], board[3][3]},
       {board[1][1], board[2][2], board[3][3]},
       {board[1][1], board[2][2], board[3][3]} >>

\* the sets winner checks, in the order it checks them: rows, columns, the two diagonals
lines(board) ==
    << {board[1][1], board[1][2], board[1][3]},
       {board[2][1], board[2][2], board[2][3]},
       {board[3][1], board[3][2], board[3][3]},
       {board[1][1], board[2][1], board[3][1]},
       {board[1][2], board[2][2], board[3][2]},
       {board[1][3], board[2][3], board[3][3]},
       {board[1][1], board[2][2], board[3][3]},
       {board[1][3], board[2][2], board[3][1]} >>

winner(board) ==
    LET checked == lines(board)
        won == {k \in 1..8 : Cardinality(checked[k]) = 1 /\ EMPTY \notin checked[k]}
    IN IF won = {} THEN None
       ELSE CHOOSE m \in checked[CHOOSE k \in won : \A l \in won : k <= l] : TRUE

\* terminal that looks only for a full board
terminal_full_only(board) == actions(board) = {}

terminal(board) == IF winner(board) = None THEN actions(board) = {} ELSE TRUE

utility(board) ==
    LET winner_player == winner(board)
    IN IF winner_player = X THEN 1 ELSE IF winner_player = O THEN -1 ELSE 0

Max(S) == CHOOSE x \in S : \A y \in S : y <= x
Min(S) == CHOOSE x \in S : \A y \in S : x <= y

\* min_value(board), given max_value on the boards one move later as the table next
min_value_step(board, next) ==
    IF terminal(board) THEN utility(board)
    ELSE Min({next[result(board, a)] : a \in actions(board)})

\* max_value(board), given min_value on the boards one move later as the table next
max_value_step(board, next) ==
    IF terminal(board) THEN utility(board)
    ELSE Max({next[result(board, a)] : a \in actions(board)})

\* the boards k calls of result away from initial_state(), each with an action of actions(board)
Boards0 == {initial_state}
Boards1 == UNION {{result(b, a) : a \in actions(b)} : b \in Boards0}
Boards2 == UNION {{result(b, a) : a \in actions(b)} : b \in Boards1}
Boards3 == UNION {{result(b, a) : a \in actions(b)} : b \in Boards2}
Boards4 == UNION {{result(b, a) : a \in actions(b)} : b \in Boards3}
Boards5 == UNION {{result(b, a) : a \in actions(b)} : b \in Boards4}
Boards6 == UNION {{result(b, a) : a \in actions(b)} : b \in Boards5}
Boards7 == UNION {{result(b, a) : a \in actions(b)} : b \in Boards6}
Boards8 == UNION {{result(b, a) : a \in actions(b)} : b \in Boards7}
Boards9 == UNION {{result(b, a) : a \in actions(b)} : b \in Boards8}
\* the mutual recursion of min_value and max_value, unrolled by the number of marks on the
\* board: every call of result adds one, and the recursion ends at a full board at the latest
MinValue9 == [b \in Boards9 |-> min_value_step(b, <<>>)] @@ <<>>
MaxValue9 == [b \in Boards9 |-> max_value_step(b, <<>>)] @@ <<>>
MinValue8 == [b \in Boards8 |-> min_value_step(b, MaxValue9)] @@ <<>>
MaxValue8 == [b \in Boards8 |-> max_value_step(b, MinValue9)] @@ <<>>
MinValue7 == [b \in Boards7 |-> min_value_step(b, MaxValue8)] @@ <<>>
MaxValue7 == [b \in Boards7 |-> max_value_step(b, MinValue8)] @@ <<>>
MinValue6 == [b \in Boards6 |-> min_value_step(b, MaxValue7)] @@ <<>>
MaxValue6 == [b \in Boards6 |-> max_value_step(b, MinValue7)] @@ <<>>
MinValue5 == [b \in Boards5 |-> min_value_step(b, MaxValue6)] @@ <<>>
MaxValue5 == [b \in Boards5 |-> max_value_step(b, MinValue6)] @@ <<>>
MinValue4 == [b \in Boards4 |-> min_value_step(b, MaxValue5)] @@ <<>>
MaxValue4 == [b \in Boards4 |-> max_value_step(b, MinValue5)] @@ <<>>
MinValue3 == [b \in Boards3 |-> min_value_step(b, MaxValue4)] @@ <<>>
MaxValue3 == [b \in Boards3 |-> max_value_step(b, MinValue4)] @@ <<>>
MinValue2 == [b \in Boards2 |-> min_value_step(b, MaxValue3)] @@ <<>>
MaxValue2 == [b \in Boards2 |-> max_value_step(b, MinValue3)] @@ <<>>
MinValue1 == [b \in Boards1 |-> min_value_step(b, MaxValue2)] @@ <<>>
MaxValue1 == [b \in Boards1 |-> max_value_step(b, MinValue2)] @@ <<>>
MinValue0 == [b \in Boards0 |-> min_value_step(b, MaxValue1)] @@ <<>>
MaxValue0 == [b \in Boards0 |-> max_value_step(b, MinValue1)] @@ <<>>
MinValue ==
    <<MinValue0, MinValue1, MinValue2, MinValue3, MinValue4,
      MinValue5, MinValue6, MinValue7, MinValue8, MinValue9>>
MaxValue ==
    <<MaxValue0, MaxValue1, MaxValue2, MaxValue3, MaxValue4,
      MaxValue5, MaxValue6, MaxValue7, MaxValue8, MaxValue9>>

\* the number of marks on a board
marks(board) == 9 - Cardinality(actions(board))

min_value(board) == MinValue[marks(board) + 1][board]
max_value(board) == MaxValue[marks(board) + 1][board]

\* minimax without the branch for O: the action of greatest min_value for either player
minimax_for_X(board) ==
    IF terminal(board) THEN {None}
    ELSE LET best == Max({min_value(result(board, a)) : a \in actions(board)})
         IN {a \in actions(board) : min_value(result(board, a)) = best}

\* minimax that returns any legal action
minimax_any(board) == IF terminal(board) THEN {None} ELSE actions(board)

\* the actions minimax(board) may return: max() and min() return an action of best key, which
\* one depends on the iteration order of the set actions(board); {None} on a terminal board
minimax(board) ==
    IF terminal(board) THEN {None}
    ELSE IF player(board) = X
         THEN LET best == Max({min_value(result(board, a)) : a \in actions(board)})
              IN {a \in actions(board) : min_value(result(board, a)) = best}
         ELSE LET best == Min({max_value(result(board, a)) : a \in actions(board)})
              IN {a \in actions(board) : max_value(result(board, a)) = best}

(***************************************************************************)
(* Tic-tac-toe: a game driven through result and minimax.                  *)
(***************************************************************************)
\* the actions a caller passes to result: the nine cells and four places off the board
Actions == ((0..2) \X (0..2)) \cup {<<-1, 1>>, <<1, -1>>, <<3, 1>>, <<1, 3>>}

Board == contents(heap, state)

\* state = result(state, action), or the exception it raises
CallResult(action) ==
    LET called == result_on(heap, state, action)
    IN /\ input' = state
       /\ input_was' = Board
       /\ last_action' = action
       /\ raised' = called.raised
       /\ returned' = called.board
       /\ IF called.raised = "none"
          THEN /\ heap' = collect(called.heap, {state, called.board})
               /\ state' = called.board
          ELSE /\ heap' = collect(heap, {state})
               /\ state' = state
       /\ UNCHANGED ms_vars

\* a caller applies result to the board and any action
Result ==
    \E action \in Actions :
        /\ CallResult(action)
        /\ chosen' = NoCall
        /\ self_play' = FALSE
        /\ UNCHANGED judged

\* the user's turn: any empty cell of a board that is not terminal
UserMove ==
    /\ ~terminal(Board)
    /\ \E action \in actions(Board) : CallResult(action)
    /\ chosen' = NoCall
    /\ self_play' = FALSE
    /\ UNCHANGED judged

\* the program's turn: move = minimax(board), and board = result(board, move) unless the
\* game is over
ComputerMove ==
    \E move \in minimax(Board) :
        /\ chosen' = [op |-> "minimax", value |-> move]
        /\ \/ /\ move = None
              /\ UNCHANGED <<heap, state, input, input_was, last_action, raised, returned>>
              /\ UNCHANGED ms_vars
           \/ /\ move # None
              /\ CallResult(move)
        /\ UNCHANGED <<self_play, judged>>

\* a new game: state = initial_state()
NewGame ==
    /\ heap = <<initial_state[1], initial_state[2], initial_state[3], <<1, 2, 3>>,
               Free, Free, Free, Free>>
    /\ state = 4
    /\ input = None
    /\ input_was = None
    /\ last_action = None
    /\ raised = "none"
    /\ returned = None
    /\ chosen = NoCall
    /\ self_play = TRUE
    /\ judged = NoCall

\* MinesweeperAI.__init__
NewAI ==
    /\ moves_made = {}
    /\ mines = {}
    /\ safes = {}
    /\ knowledge = <<>>
    /\ pc = "idle"
    /\ passes = 0
    /\ calls = 0
    /\ cur = None
    /\ prev_call = None
    /\ snap = [mines |-> {}, safes |-> {}, size |-> 0]
    /\ owed = {}
    /\ underived = FALSE
    /\ ret = NoCall

\* a minesweeper game of the driver's, and its engine
Init ==
    /\ \/ truthful = TRUE /\ height = TruthfulGrid[1] /\ width = TruthfulGrid[2]
       \/ truthful = FALSE /\ height = ArbitraryGrid[1] /\ width = ArbitraryGrid[2]
    /\ minefield \in (IF truthful THEN SUBSET Cells ELSE {{}})
    /\ NewAI
    /\ NewGame

Next ==
    \/ Reveal
    \/ Pass
    \/ MakeSafeMove
    \/ MakeRandomMove

vars == <<ms_vars, game_vars>>

Spec == Init /\ [][Next]_vars

\* boards driven through result by any caller
GameInit ==
    /\ truthful = FALSE /\ height = ArbitraryGrid[1] /\ width = ArbitraryGrid[2]
    /\ minefield = {}
    /\ NewAI
    /\ NewGame

GameNext == Result

GameSpec == GameInit /\ [][GameNext]_vars

\* a game between a user and minimax, or of minimax against itself
PlayNext ==
    \/ UserMove
    \/ ComputerMove

PlaySpec == GameInit /\ [][PlayNext]_vars

\* winner(board) and terminal(board)
Judge ==
    /\ judged' = [op |-> "judge", winner |-> winner(Board), terminal |-> terminal(Board)]
    /\ UNCHANGED <<heap, state, input, input_was, last_action, raised, returned, chosen,
                   self_play>>
    /\ UNCHANGED ms_vars

\* any board of three rows of three marks
BoardInit ==
    /\ truthful = FALSE /\ height = ArbitraryGrid[1] /\ width = ArbitraryGrid[2]
    /\ minefield = {}
    /\ NewAI
    /\ \E row1 \in {X, O, EMPTY} \X {X, O, EMPTY} \X {X, O, EMPTY},
          row2 \in {X, O, EMPTY} \X {X, O, EMPTY} \X {X, O, EMPTY},
          row3 \in {X, O, EMPTY} \X {X, O, EMPTY} \X {X, O, EMPTY} :
           heap = <<row1, row2, row3, <<1, 2, 3>>, Free, Free, Free, Free>>
    /\ state = 4
    /\ input = None
    /\ input_was = None
    /\ last_action = None
    /\ raised = "none"
    /\ returned = None
    /\ chosen = NoCall
    /\ self_play = FALSE
    /\ judged = NoCall

BoardNext == Judge

BoardSpec == BoardInit /\ [][BoardNext]_vars

(***************************************************************************)
(* The claims.                                                             *)
(***************************************************************************)
\* the number of marks mark on a board
mark_count(board, mark) ==
    row_count(board[1], mark) + row_count(board[2], mark) + row_count(board[3], mark)

\* the actions that win the game at once for the player to move
winning_actions(board) ==
    {a \in actions(board) : winner(result(board, a)) = player(board)}

\* no sentence of the list has an empty set of cells
no_empty_sentence == \A k \in DOMAIN knowledge : knowledge[k].cells # {}

\* C1: when every add_knowledge call reports the true count of mines around a cell that is
\* not a mine, every cell of mines is a mine of the layout and no cell of safes is, after
\* every call (and all through it)
C1_Sound ==
    truthful => (mines \subseteq minefield /\ safes \cap minefield = {} /\ mines \cap safes = {})

\* a game on ground truth in which the engine found both a mine and a safe cell not yet played
C1_Witness ==
    /\ truthful /\ pc = "idle" /\ calls >= 2
    /\ mines # {} /\ safes \ moves_made # {}

\* C2: a game from initial_state() in which minimax moves for both sides ends in a draw,
\* whichever of its equally good actions minimax returns
C2_Draw ==
    (self_play /\ terminal(Board)) => (utility(Board) = 0 /\ winner(Board) = None)

\* a game minimax played against itself to a full board
C2_Witness ==
    /\ self_play /\ terminal(Board) /\ actions(Board) = {}
    /\ chosen.op = "minimax" /\ chosen.value # None

\* C3: on a board that is not terminal and on which some action wins at once for the player
\* to move, minimax returns an action that wins at once
C3_TakesWin ==
    (chosen.op = "minimax" /\ chosen.value # None /\ winning_actions(input_was) # {})
        => chosen.value \in winning_actions(input_was)

\* C4: after any add_knowledge calls, whatever they report, make_safe_move returns None or
\* a cell of safes that is neither in moves_made nor in mines, and None exactly when
\* safes is a subset of moves_made
C4_SafeMove ==
    ret.op = "make_safe_move" =>
        /\ \/ ret.value = None
           \/ (ret.value \in safes /\ ret.value \notin moves_made /\ ret.value \notin mines)
        /\ (ret.value = None) <=> (safes \subseteq moves_made)

\* make_safe_move returned a cell while the reports had made the engine hold some cell both
\* safe and mined
C4_Witness ==
    /\ ~truthful /\ ret.op = "make_safe_move" /\ ret.value # None
    /\ safes \cap mines # {}

\* C5: a second add_knowledge call with the arguments of the call just before it leaves
\* mines, safes and the number of sentences as they were
C5_Idempotent ==
    (pc = "idle" /\ calls >= 2 /\ cur = prev_call) =>
        (mines = snap.mines /\ safes = snap.safes /\ Len(knowledge) = snap.size)

\* a repeated call on an engine that holds sentences, a mine and a safe cell
C5_Witness ==
    /\ pc = "idle" /\ calls >= 2 /\ cur = prev_call
    /\ knowledge # <<>> /\ no_empty_sentence /\ mines # {}

\* C6, as the spec has it: for live sentences A and B of a pass of the loop with A.cells a
\* proper subset of B.cells, the sentence (B.cells - A.cells, B.count - A.count) is in the
\* list after the pass, and if its count is its number of cells they are all in mines when
\* add_knowledge returns
C6_Subset ==
    pc = "idle" => (~underived /\ owed \subseteq mines)

\* C6, amended: the same when every call reports a true count
C6_SubsetOnTruth ==
    (truthful /\ pc = "idle") => (~underived /\ owed \subseteq mines)

\* the case of the spec: with {(0,0),(0,1)} = 1 and {(0,0),(0,1),(0,2)} = 2 live in the
\* call that reveals (1,1) after (1,0) and (1,2), the cell (0,2) is owed to mines, and in
\* mines at the return
C6_Witness ==
    /\ truthful /\ pc = "idle" /\ minefield = {<<0, 0>>, <<0, 2>>}
    /\ moves_made = {<<1, 0>>, <<1, 1>>, <<1, 2>>} /\ cur[1] = <<1, 1>>
    /\ <<0, 2>> \in owed /\ <<0, 2>> \in mines

\* C7: every add_knowledge call leaves its while loop; no call is still in the loop after
\* MaxPasses passes
C7_Terminates ==
    pc = "loop" => passes < MaxPasses

\* C8: when add_knowledge has returned, no sentence of knowledge has an empty set of cells
C8_NoEmpty ==
    (pc = "idle" /\ calls >= 1) => no_empty_sentence

\* C9: on every board that calls of result with actions of actions(board) lead to from
\* initial_state(), X moves first, there are as many X as O or one more, and after any
\* action of actions(board) the other player is to move
C9_Alternates ==
    /\ player(initial_state) = X
    /\ mark_count(Board, X) - mark_count(Board, O) \in {0, 1}
    /\ \A a \in actions(Board) :
           /\ player(Board) \in {X, O}
           /\ player(result(Board, a)) \in {X, O} \ {player(Board)}

\* a board with both marks on it that result made of a board already terminal
C9_Witness ==
    /\ raised = "none" /\ last_action # None
    /\ terminal(input_was) /\ actions(Board) # {}
    /\ mark_count(Board, X) = 4 /\ mark_count(Board, O) = 3

\* C10: a call of result that raises nothing leaves the board passed to it as it was, shares
\* no list with it, and returns a board that holds the mark of player(board) in the cell
\* of the action, which was empty, and is equal to the board passed in every other cell
C10_NewBoard ==
    (raised = "none" /\ last_action # None) =>
        /\ contents(heap, input) = input_was
        /\ objects(heap, state) \cap objects(heap, input) = {}
        /\ \A i \in 0..2, j \in 0..2 :
               IF <<i, j>> = last_action
               THEN /\ Board[i + 1][j + 1] = player(input_was)
                    /\ Board[i + 1][j + 1] # input_was[i + 1][j + 1]
               ELSE Board[i + 1][j + 1] = input_was[i + 1][j + 1]

\* a call of result on a board that already holds marks of both players
C10_Witness ==
    /\ raised = "none" /\ last_action = <<1, 1>>
    /\ mark_count(input_was, X) = 2 /\ mark_count(input_was, O) = 2

\* C11: result raises IndexError when i or j is negative or 3 or more, ValueError when
\* (i, j) is on the board and the cell is not EMPTY; a call that raises returns no board and
\* leaves the board passed to it as it was
C11_Raises ==
    last_action # None =>
        LET i == last_action[1]
            j == last_action[2]
            off == i < 0 \/ j < 0 \/ i >= 3 \/ j >= 3
        IN /\ off => raised = "IndexError"
           /\ (~off /\ input_was[i + 1][j + 1] # EMPTY) => raised = "ValueError"
           /\ (~off /\ input_was[i + 1][j + 1] = EMPTY) => raised = "none"
           /\ raised # "none" =>
                  (returned = None /\ state = input /\ contents(heap, input) = input_was)

\* a call with a negative index raised IndexError on a board whose last row holds a mark and
\* an empty cell
C11_Witness ==
    /\ raised = "IndexError" /\ last_action = <<-1, 1>>
    /\ Board[3][2] = EMPTY /\ Board[3][1] = X /\ mark_count(Board, O) = 1

\* the cells of the three rows, the three columns and the two diagonals
Lines3 ==
    {{<<i, 1>>, <<i, 2>>, <<i, 3>>} : i \in 1..3}
        \cup {{<<1, j>>, <<2, j>>, <<3, j>>} : j \in 1..3}
        \cup {{<<1, 1>>, <<2, 2>>, <<3, 3>>}, {<<1, 3>>, <<2, 2>>, <<3, 1>>}}

\* some row, column or diagonal of the board holds three marks mark
has_line(board, mark) ==
    \E line \in Lines3 : \A c \in line : board[c[1]][c[2]] = mark

\* C12: on every board of three rows of three marks, winner returns X or O only if three of
\* that mark fill a row, column or diagonal, returns None exactly when no mark fills one, and
\* terminal is true exactly when winner is not None or no cell is EMPTY
C12_Judged ==
    judged.op = "judge" =>
        /\ judged.winner \in {X, O, None}
        /\ judged.winner \in {X, O} => has_line(Board, judged.winner)
        /\ (judged.winner = None) <=> (~has_line(Board, X) /\ ~has_line(Board, O))
        /\ judged.terminal <=>
               (judged.winner # None \/ \A i \in 1..3, j \in 1..3 : Board[i][j] # EMPTY)

\* winner was called on a board with an empty cell where O holds only the diagonal from the
\* top right and X holds no line
C12_Witness ==
    /\ judged.op = "judge" /\ judged.winner = O /\ judged.terminal
    /\ Board[1][3] = O /\ Board[2][2] = O /\ Board[3][1] = O
    /\ Board[1][1] = EMPTY /\ Board[3][3] = X /\ Board[1][2] = X /\ Board[2][1] = X
    /\ ~has_line(Board, X)

\* C13: when every add_knowledge call reports the true count of mines around a cell that is
\* not a mine, every sentence of knowledge has a count from 0 to its number of cells
C13_CountInRange ==
    truthful =>
        \A k \in DOMAIN knowledge :
            0 <= knowledge[k].count /\ knowledge[k].count <= Cardinality(knowledge[k].cells)

\* a call returned with a mine found and a sentence of two cells or more still open
C13_Witness ==
    /\ truthful /\ pc = "idle" /\ calls >= 2 /\ mines # {}
    /\ \E k \in DOMAIN knowledge :
           Cardinality(knowledge[k].cells) >= 2 /\ knowledge[k].count >= 1

\* C14: when an add_knowledge call has returned, whatever the calls reported, no sentence of
\* knowledge holds a cell of moves_made, of safes or of mines
C14_Resolved ==
    pc = "idle" =>
        \A k \in DOMAIN knowledge :
            knowledge[k].cells \cap (moves_made \cup safes \cup mines) = {}

\* a call on arbitrary reports returned with a mine marked and a sentence that still has
\* cells
C14_Witness ==
    /\ ~truthful /\ pc = "idle" /\ calls >= 2
    /\ mines # {}
    /\ \E k \in DOMAIN knowledge : knowledge[k].cells # {}

\* C15: make_random_move returns None or a cell of the grid that is neither in moves_made
\* nor in mines, None exactly when every cell of the grid is in moves_made or in mines, and
\* the call leaves moves_made, safes, mines and knowledge as they were
C15_RandomMove ==
    [][ret'.op = "make_random_move" =>
          /\ \/ ret'.value = None
             \/ /\ ret'.value \in (0..(height - 1)) \X (0..(width - 1))
                /\ ret'.value \notin moves_made
                /\ ret'.value \notin mines
          /\ (ret'.value = None) <=>
                 (\A i \in 0..(height - 1), j \in 0..(width - 1) :
                      <<i, j>> \in moves_made \cup mines)
          /\ UNCHANGED <<moves_made, safes, mines, knowledge>>]_vars

\* make_random_move returned a cell while some cells were played and some known to be mines
C15_Witness ==
    /\ ret.op = "make_random_move" /\ ret.value # None
    /\ mines # {} /\ moves_made # {}

\* C16: in every step of every run of add_knowledge calls, moves_made, safes and mines keep
\* the cells they had
C16_Monotonic ==
    [][/\ moves_made \subseteq moves_made'
       /\ safes \subseteq safes'
       /\ mines \subseteq mines']_vars

\* a later call returned with a mine marked and more safe cells than moves made
C16_Witness ==
    /\ pc = "idle" /\ calls >= 2
    /\ mines # {}
    /\ Cardinality(safes) > Cardinality(moves_made)

\* the board the last minimax call was given: the one result was then applied to, or the
\* board as it stands when the call returned None
asked == IF chosen.value = None THEN Board ELSE input_was

\* C17: minimax returns None exactly on terminal boards; on any other board it returns an
\* action of actions(board) whose resulting board has a min_value no lower (X to move) or a
\* max_value no higher (O to move) than that of any other action, and the board object it
\* was given still holds what it held
C17_Minimax ==
    chosen.op = "minimax" =>
        /\ (chosen.value = None) <=> terminal(asked)
        /\ chosen.value # None =>
               /\ chosen.value \in actions(asked)
               /\ player(asked) = X =>
                      \A a \in actions(asked) :
                          min_value(result(asked, chosen.value)) >= min_value(result(asked, a))
               /\ player(asked) = O =>
                      \A a \in actions(asked) :
                          max_value(result(asked, chosen.value)) <= max_value(result(asked, a))
               /\ contents(heap, input) = asked

\* minimax moved for O on a board where another action would have been worse for O
C17_Witness ==
    /\ chosen.op = "minimax" /\ chosen.value # None
    /\ player(input_was) = O
    /\ \E a \in actions(input_was) :
           max_value(result(input_was, a)) > max_value(result(input_was, chosen.value))

\* C18: when add_knowledge has returned, no sentence of knowledge has a cell in its
\* known_mines() or in its known_safes()
C18_Fixpoint ==
    pc = "idle" =>
        \A k \in DOMAIN knowledge :
            known_mines(knowledge[k]) = {} /\ known_safes(knowledge[k]) = {}

\* C19: when add_knowledge has returned, no two entries of knowledge have equal cells and
\* equal counts
C19_NoDuplicates ==
    pc = "idle" =>
        \A j, k \in DOMAIN knowledge :
            j # k => knowledge[j] # knowledge[k]

\* C20: on every board a game reaches from initial_state() by legal actions applied to
\* boards that are not terminal, X and O do not both hold a row, column or diagonal, and
\* winner returns the player who holds one whichever line it finds first
C20_OneWinner ==
    /\ ~(has_line(Board, X) /\ has_line(Board, O))
    /\ \A mark \in {X, O} : has_line(Board, mark) => winner(Board) = mark

\* the last move of a game filled two lines at once for X
C20_Witness ==
    /\ last_action # None /\ raised = "none"
    /\ Cardinality({line \in Lines3 : \A c \in line : Board[c[1]][c[2]] = X}) >= 2
    /\ mark_count(Board, O) = 4

====
